---------------------------- MODULE Spec2Model ----------------------------
(***************************************************************************)
(* Model of the CeramicFlow geometry / CAM core: the surface evaluator     *)
(* (calculateVesselPoint), the mesh builder (generateVesselMesh), the      *)
(* exporters (exportOBJ, exportGCODE), the print statistics, the texture   *)
(* ingestion (processImageForGeometry) and the control-panel sliders.      *)
(*                                                                         *)
(* Numbers.  The program computes in IEEE doubles.  The model computes in  *)
(* fixed point: a length is an integer number of 1/UNIT mm.  Parametric    *)
(* coordinates are exact fractions (u = uN/uD, v = vN/vD), so that 0/0     *)
(* (NaN) is visible as a zero denominator, and products of fractions are   *)
(* rounded once, at the end.  Angles are integers in 1/1000 of a turn; the *)
(* sine is Bhaskara's rational approximation scaled by 1000.  A record     *)
(* field that holds NaN in the program is named in the record's `nan` set. *)
(* Exported text is modelled by its numbers: a line of a file is a record  *)
(* of the values printed on it, at the model's resolution.                 *)
(***************************************************************************)
EXTENDS Integers, Sequences, FiniteSets, TLC

\* Fixed-point resolution: units per millimetre.
UNIT == 100

-----------------------------------------------------------------------------
(* Arithmetic helpers *)

Abs(a) == IF a < 0 THEN -a ELSE a

Min(a, b) == IF a < b THEN a ELSE b

\* JavaScript's % : the remainder takes the sign of the dividend (b > 0).
JsRem(a, b) == IF a >= 0 THEN a % b ELSE -((-a) % b)

\* Math.sqrt on fixed-point values: the integer square root (rounded down).
RECURSIVE SqrtIter(_, _)
SqrtIter(n, g) ==
    LET h == (g + n \div g) \div 2
    IN  IF h >= g THEN g ELSE SqrtIter(n, h)

Sqrt(n) == IF n <= 0 THEN 0 ELSE SqrtIter(n, n)

\* Math.sin of an angle given in 1/1000 turn, result scaled by 1000.
Sin1000(mt) ==
    LET a == mt % 1000
        B(h) == (16000 * h * (500 - h)) \div (1250000 - 4 * h * (500 - h))
    IN  IF a <= 500 THEN B(a) ELSE -B(a - 500)

\* Math.cos, by the quarter-turn shift.
Cos1000(mt) == Sin1000(mt + 250)

\* Radians (in 1/1000 rad) to 1/1000 turn: x / (2*PI).
RadToTurn(mrad) == (mrad * 100) \div 628

\* Math.PI, scaled by 1000.
PiMilli == 3142

\* Float32Array storage: 24 bits of mantissa.  Every fixed-point value below
\* 2^24 units is stored unchanged; larger ones lose their low bit.
Fround(a) == IF Abs(a) < 16777216 THEN a ELSE (a \div 2) * 2

-----------------------------------------------------------------------------
(* Texture grids: TextureData | null *)

NoTexture == [present |-> FALSE, width |-> 0, height |-> 0, data |-> <<>>]

Texture(w, h, d) == [present |-> TRUE, width |-> w, height |-> h, data |-> d]

\* textureData.data[i] (0-based); an index outside the array reads undefined.
TexelDefined(tex, i) == i >= 0 /\ i < Len(tex.data)

Texel(tex, i) == IF TexelDefined(tex, i) THEN tex.data[i + 1] ELSE 0

-----------------------------------------------------------------------------
(* calculateVesselPoint *)

\* noiseVal * noiseScale * (1 - (v - 0.5)^2 * 0.5), in length units.
\* twist is in 1/1000 rad, noiseFrequency in halves (freq2 = 2 * frequency).
NoiseTerm(p, uN, uD, vN, vD) ==
    LET theta       == (1000 * uN) \div uD
        twistOffset == RadToTurn((vN * p.twist) \div vD)
        arg1        == ((theta + twistOffset) * p.freq2) \div 2
        heightMilli == (p.height * 1000) \div UNIT
        arg2        == RadToTurn((vN * heightMilli * p.freq2) \div (vD * 4))
        noiseVal    == (Sin1000(arg1) * Cos1000(arg2)) \div 1000
        taper       == 1000 - (1000 * (2 * vN - vD) * (2 * vN - vD)) \div (8 * vD * vD)
    IN  (((noiseVal * p.noiseScale) \div 1000) * taper) \div 1000

\* The four texel indices of the bilinear lookup and the two weights.
TexLookup(tex, uN, uD, vN, vD) ==
    LET texXn == JsRem(uN * tex.width, uD * tex.width)
        texYn == JsRem((vD - vN) * tex.height, vD * tex.height)
        x1    == texXn \div uD
        y1    == texYn \div vD
        x2    == JsRem(x1 + 1, tex.width)
        y2    == IF y1 + 1 < tex.height THEN y1 + 1 ELSE y1
    IN  [x1 |-> x1, y1 |-> y1, x2 |-> x2, y2 |-> y2,
         dxN |-> texXn - x1 * uD, dyN |-> texYn - y1 * vD,
         i11 |-> y1 * tex.width + x1, i21 |-> y1 * tex.width + x2,
         i12 |-> y2 * tex.width + x1, i22 |-> y2 * tex.width + x2]

\* TRUE when one of the four reads of the lookup k falls outside the data
\* array (NaN).
TexUndefined(tex, k) ==
    \E i \in {k.i11, k.i21, k.i12, k.i22} : ~TexelDefined(tex, i)

\* Mutant of TextureTerm: the luminance is centred, dark texels displace
\* inwards.
TextureTermCentred(p, tex, k, uD, vD) ==
    LET top    == Texel(tex, k.i11) * (uD - k.dxN) + Texel(tex, k.i21) * k.dxN
        bottom == Texel(tex, k.i12) * (uD - k.dxN) + Texel(tex, k.i22) * k.dxN
    IN  ((top * (vD - k.dyN) + bottom * k.dyN - 128 * uD * vD) * p.textureInfluence)
          \div (255 * uD * vD)

\* val * textureInfluence, in length units, for the lookup k.
TextureTerm(p, tex, k, uD, vD) ==
    LET top    == Texel(tex, k.i11) * (uD - k.dxN) + Texel(tex, k.i21) * k.dxN
        bottom == Texel(tex, k.i12) * (uD - k.dxN) + Texel(tex, k.i22) * k.dxN
    IN  ((top * (vD - k.dyN) + bottom * k.dyN) * p.textureInfluence) \div (255 * uD * vD)

\* `textureData && textureInfluence > 0`
TextureApplies(p, tex) == tex.present /\ p.textureInfluence > 0

\* r before the clamp (line 76), for finite u and v.
RawRadius(p, uN, uD, vN, vD, radiusOffset, tex) ==
    p.baseRadius + NoiseTerm(p, uN, uD, vN, vD)
      + (IF TextureApplies(p, tex)
         THEN TextureTerm(p, tex, TexLookup(tex, uN, uD, vN, vD), uD, vD)
         ELSE 0)
      + radiusOffset

\* The lowest radius the evaluator returns: 0.1 mm.
MinRadius == UNIT \div 10

\* Mutant of ClampRadius: the floor is left out.
ClampRadiusUnclamped(r) == r

\* `if (r < 0.1) r = 0.1`
ClampRadius(r) == IF r < MinRadius THEN MinRadius ELSE r

\* The returned object for radius r, angle theta (1/1000 turn) and height cy:
\* x = r cos(theta), y = cy, z = r sin(theta).
PolarPoint(r, theta, cy) ==
    [x |-> (r * Cos1000(theta)) \div 1000, y |-> cy,
     z |-> (r * Sin1000(theta)) \div 1000, r |-> r, nan |-> {}]

\* The point for finite u = un/ud and v = vn/vd (ud, vd > 0) at height cy.  A
\* texel read outside the data array makes the radius NaN, and NaN passes the
\* clamp unchanged because NaN < 0.1 is false.
SurfacePoint(p, un, ud, vn, vd, radiusOffset, cy, tex) ==
    IF TextureApplies(p, tex) /\ TexUndefined(tex, TexLookup(tex, un, ud, vn, vd))
    THEN [x |-> 0, y |-> cy, z |-> 0, r |-> 0, nan |-> {"x", "z", "r"}]
    ELSE PolarPoint(ClampRadius(RawRadius(p, un, ud, vn, vd, radiusOffset, tex)),
                    (1000 * un) \div ud, cy)

\* The sign of a fraction's denominator.
Sgn(d) == IF d < 0 THEN -1 ELSE 1

\* The point returned for u = uN/uD, v = vN/vD and heightScale = hsN/hsD.
\* A zero denominator is the program's 0/0: every value computed from it is NaN.
CalculateVesselPoint(p, uN, uD, vN, vD, radiusOffset, heightOffset, hsN, hsD, tex) ==
    IF uD = 0 \/ vD = 0 \/ hsD = 0
    THEN [x |-> 0, z |-> 0, r |-> 0,
          y |-> IF vD = 0 \/ hsD = 0 THEN 0 ELSE (vN * p.height * hsN) \div (vD * hsD) + heightOffset,
          nan |-> {"x", "z", "r"} \cup (IF vD = 0 \/ hsD = 0 THEN {"y"} ELSE {})]
    ELSE SurfacePoint(p, Sgn(uD) * uN, Sgn(uD) * uD, Sgn(vD) * vN, Sgn(vD) * vD,
                      radiusOffset,
                      (Sgn(vD) * vN * p.height * hsN) \div (Sgn(vD) * vD * hsD) + heightOffset,
                      tex)

-----------------------------------------------------------------------------
(* generateVesselMesh *)

\* vertices.push(p.x, p.y, p.z), as stored in the Float32Array.
Vertex(pt) ==
    [x |-> Fround(pt.x), y |-> Fround(pt.y), z |-> Fround(pt.z), nan |-> pt.nan \ {"r"}]

\* A vertex pushed from literals: vertices.push(a, b, c).
Apex(a, b, c) == [x |-> Fround(a), y |-> Fround(b), z |-> Fround(c), nan |-> {}]

\* The passes of `for (let k = 0; k < n; k++)`: none when n <= 0.
LoopCount(n) == IF n > 0 THEN n ELSE 0

\* One shell: for y in 0..layers, for x in 0..segments, push the point at
\* u = x/segments, v = y/layers.
ShellVertices(p, tex, radiusOffset, heightOffset, hsN, hsD) ==
    [k \in 1..(LoopCount(p.layers + 1) * LoopCount(p.segments + 1)) |->
        Vertex(CalculateVesselPoint(p, (k - 1) % (p.segments + 1), p.segments,
                                    (k - 1) \div (p.segments + 1), p.layers,
                                    radiusOffset, heightOffset, hsN, hsD, tex))]

\* The indices pushed by a loop, in push order: the concatenation of what each
\* pass pushes (every pass of one loop pushes the same number of indices).
Concat(pushes) ==
    IF Len(pushes) = 0
    THEN <<>>
    ELSE [i \in 1..(Len(pushes) * Len(pushes[1])) |->
             pushes[((i - 1) \div Len(pushes[1])) + 1][((i - 1) % Len(pushes[1])) + 1]]

\* The <<y, x>> of the passes of `for y in 0..layers-1, for x in 0..segments-1`,
\* in order.
CellOrder(layers, segments) ==
    [k \in 1..(LoopCount(layers) * LoopCount(segments)) |->
        <<(k - 1) \div segments, (k - 1) % segments>>]

\* addQuad: two triangles (p1, p2, p3) and (p3, p2, p4).
AddQuad(p1, p2, p3, p4) == <<p1, p2, p3, p3, p2, p4>>

\* Mutant of VaseCell: only the first triangle of the cell is pushed.
VaseCellOneTriangle(segments, y, x) ==
    LET row1 == y * (segments + 1)
        row2 == (y + 1) * (segments + 1)
    IN  <<row1 + x, row2 + x, row1 + x + 1>>

\* The vase-mode cell: indices.push(a, c, b); indices.push(b, c, d).
VaseCell(segments, y, x) ==
    LET row1 == y * (segments + 1)
        row2 == (y + 1) * (segments + 1)
        a    == row1 + x
        b    == row1 + x + 1
        c    == row2 + x
        d    == row2 + x + 1
    IN  <<a, c, b, b, c, d>>

\* Outer shell cell of the solid: addQuad(BL, TL, BR, TR).
OuterCell(vertsPerRow, y, x) ==
    LET row1 == y * vertsPerRow
        row2 == (y + 1) * vertsPerRow
    IN  AddQuad(row1 + x, row2 + x, row1 + x + 1, row2 + x + 1)

\* Mutant of InnerCell: the inner cell is stitched in the outer cell's order.
InnerCellUnswapped(innerOffset, vertsPerRow, y, x) ==
    LET row1 == innerOffset + y * vertsPerRow
        row2 == innerOffset + (y + 1) * vertsPerRow
    IN  AddQuad(row1 + x, row2 + x, row1 + x + 1, row2 + x + 1)

\* Inner shell cell of the solid: addQuad(BR, TR, BL, TL).
InnerCell(innerOffset, vertsPerRow, y, x) ==
    LET row1 == innerOffset + y * vertsPerRow
        row2 == innerOffset + (y + 1) * vertsPerRow
    IN  AddQuad(row1 + x + 1, row2 + x + 1, row1 + x, row2 + x)

\* Mutant of RimQuad: only the first triangle of the rim quad is pushed.
RimQuadOneTriangle(outerTopRow, innerTopRow, x) ==
    <<outerTopRow + x, outerTopRow + x + 1, innerTopRow + x>>

\* Rim quad between the top outer row and the top inner row.
RimQuad(outerTopRow, innerTopRow, x) ==
    AddQuad(outerTopRow + x, outerTopRow + x + 1, innerTopRow + x, innerTopRow + x + 1)

\* Outer bottom cap triangle.
OuterFloorTri(centerBottomIndex, outerBottomRow, x) ==
    <<centerBottomIndex, outerBottomRow + x + 1, outerBottomRow + x>>

\* Mutant of InnerFloorTri: the apex index is one too far.
InnerFloorTriPastEnd(centerFloorIndex, innerBottomRow, x) ==
    <<centerFloorIndex + 1, innerBottomRow + x, innerBottomRow + x + 1>>

\* Inner floor cap triangle.
InnerFloorTri(centerFloorIndex, innerBottomRow, x) ==
    <<centerFloorIndex, innerBottomRow + x, innerBottomRow + x + 1>>

\* Mutant of InnerHeightScaleNum: the inner shell keeps the full height scale.
InnerHeightScaleNumFull(p) == p.height

\* innerHeightScale = (height - wallThickness) / height, as the fraction
\* InnerHeightScaleNum / height.
InnerHeightScaleNum(p) == p.height - p.wallThickness

\* vertices.push(0, 0, 0): the centre of the outer bottom.
OuterApex(p) == Apex(0, 0, 0)

\* Mutant of InnerApex: the inner floor centre is put at the origin.
InnerApexAtOrigin(p) == Apex(0, 0, 0)

\* vertices.push(0, wallThickness, 0): the centre of the inner floor.
InnerApex(p) == Apex(0, p.wallThickness, 0)

\* The index pushes of vase mode.
VaseIndices(segments, cells) ==
    Concat([k \in 1..Len(cells) |-> VaseCell(segments, cells[k][1], cells[k][2])])

\* Vase mode (wallThickness <= 0): one open surface.
VaseMesh(p, tex) ==
    [vertices |-> ShellVertices(p, tex, 0, 0, 1, 1),
     indices  |-> VaseIndices(p.segments, CellOrder(p.layers, p.segments))]

\* The index pushes of solid mode: outer cells, inner cells, rim, outer floor
\* fan, inner floor fan.  centerBottomIndex is vertices.length / 3 after both
\* shells.
SolidIndices(vertsPerRow, innerOffset, outerTopRow, innerTopRow, centerBottomIndex, cells, columns) ==
    Concat([k \in 1..Len(cells) |-> OuterCell(vertsPerRow, cells[k][1], cells[k][2])])
      \o Concat([k \in 1..Len(cells) |->
                    InnerCell(innerOffset, vertsPerRow, cells[k][1], cells[k][2])])
      \o Concat([k \in 1..columns |-> RimQuad(outerTopRow, innerTopRow, k - 1)])
      \o Concat([k \in 1..columns |-> OuterFloorTri(centerBottomIndex, 0, k - 1)])
      \o Concat([k \in 1..columns |->
                    InnerFloorTri(centerBottomIndex + 1, innerOffset, k - 1)])

\* The solid mesh assembled from its two shells.
SolidAssemble(p, outer, inner) ==
    [vertices |-> outer \o inner \o <<OuterApex(p)>> \o <<InnerApex(p)>>,
     indices  |-> SolidIndices(p.segments + 1,
                               (p.layers + 1) * (p.segments + 1),
                               p.layers * (p.segments + 1),
                               (p.layers + 1) * (p.segments + 1) + p.layers * (p.segments + 1),
                               Len(outer) + Len(inner),
                               CellOrder(p.layers, p.segments),
                               LoopCount(p.segments))]

\* Solid mode: outer shell, inner shell, rim, two floor fans.
SolidMesh(p, tex) ==
    SolidAssemble(p, ShellVertices(p, tex, 0, 0, 1, 1),
                  ShellVertices(p, tex, -p.wallThickness, p.wallThickness,
                                InnerHeightScaleNum(p), p.height))

GenerateVesselMesh(p, tex) ==
    IF p.wallThickness <= 0 THEN VaseMesh(p, tex) ELSE SolidMesh(p, tex)

-----------------------------------------------------------------------------
(* exportOBJ *)

\* The `f a b c` lines: one per index triple, each index + 1.
ObjFaces(indices) ==
    [t \in 1..(Len(indices) \div 3) |->
        <<indices[3 * t - 2] + 1, indices[3 * t - 1] + 1, indices[3 * t] + 1>>]

\* The file for the mesh m: the two header counts, the `v` lines and the `f`
\* lines.
ObjText(m) ==
    [vertexCount |-> Len(m.vertices),
     faceCount   |-> Len(m.indices) \div 3,
     v           |-> m.vertices,
     f           |-> ObjFaces(m.indices)]

\* exportOBJ: the text of generateVesselMesh(params, textureData).
ObjFile(p, tex) == ObjText(GenerateVesselMesh(p, tex))

-----------------------------------------------------------------------------
(* exportSTL *)

\* The cross product of the edges u = (ux, uy, uz) and v = (vx, vy, vz).
Cross(ux, uy, uz, vx, vy, vz) ==
    [x |-> uy * vz - uz * vy, y |-> uz * vx - ux * vz, z |-> ux * vy - uy * vx]

\* nx, ny, nz of a triangle: u = v2 - v1, v = v3 - v1.
FacetCross(v1, v2, v3) ==
    Cross(v2.x - v1.x, v2.y - v1.y, v2.z - v1.z, v3.x - v1.x, v3.y - v1.y, v3.z - v1.z)

\* The largest component of a cross product, in absolute value.
MaxAbs(n) ==
    IF Abs(n.x) >= Abs(n.y) /\ Abs(n.x) >= Abs(n.z) THEN Abs(n.x)
    ELSE IF Abs(n.y) >= Abs(n.z) THEN Abs(n.y) ELSE Abs(n.z)

\* toFixed(4): a normal component is written in 1/10000.
NormalUnit == 10000

\* A cross product brought to components of at most NormalUnit, so that the
\* squares of the length stay within the integers; the direction is kept, and
\* a product with small components is left as it is.
ScaledCross(n, s) == [x |-> n.x \div s, y |-> n.y \div s, z |-> n.z \div s]

\* len = Math.sqrt(nx*nx + ny*ny + nz*nz) || 1: a zero length is replaced by 1.
StlLen(n) ==
    IF n.x = 0 /\ n.y = 0 /\ n.z = 0 THEN 1 ELSE Sqrt(n.x * n.x + n.y * n.y + n.z * n.z)

\* The written normal: nx/len, ny/len, nz/len.
StlNormal(n, len) ==
    [x |-> (n.x * NormalUnit) \div len, y |-> (n.y * NormalUnit) \div len,
     z |-> (n.z * NormalUnit) \div len]

\* The normal of the scaled cross product n.
StlNormalOf(n) == StlNormal(n, StlLen(n))

\* The normal of the cross product n: a NaN coordinate makes it NaN.
StlFacetNormal(n) == StlNormalOf(ScaledCross(n, MaxAbs(n) \div NormalUnit + 1))

\* One facet: its normal and its three vertices.
StlFacet(v1, v2, v3) ==
    [normal |-> StlFacetNormal(FacetCross(v1, v2, v3)),
     nan    |-> v1.nan \cup v2.nan \cup v3.nan,
     v1     |-> v1, v2 |-> v2, v3 |-> v3]

\* The facets of the mesh m, one per index triple.
StlText(m) ==
    [facets |-> [t \in 1..(Len(m.indices) \div 3) |->
                    StlFacet(m.vertices[m.indices[3 * t - 2] + 1],
                             m.vertices[m.indices[3 * t - 1] + 1],
                             m.vertices[m.indices[3 * t] + 1])]]

\* exportSTL: the text of generateVesselMesh(params, textureData).
StlFile(p, tex) == StlText(GenerateVesselMesh(p, tex))

-----------------------------------------------------------------------------
(* exportPLY *)

\* The `3 a b c` lines: one per index triple, indices 0-based.
PlyFaces(indices) ==
    [t \in 1..(Len(indices) \div 3) |->
        <<3, indices[3 * t - 2], indices[3 * t - 1], indices[3 * t]>>]

\* The file for the mesh m: the two header counts, the vertex lines and the
\* face lines.
PlyText(m) ==
    [vertexCount |-> Len(m.vertices),
     faceCount   |-> Len(m.indices) \div 3,
     v           |-> m.vertices,
     f           |-> PlyFaces(m.indices)]

\* exportPLY: the text of generateVesselMesh(params, textureData).
PlyFile(p, tex) == PlyText(GenerateVesselMesh(p, tex))

-----------------------------------------------------------------------------
(* exportGCODE *)

\* height / layers.  A zero divisor gives Infinity (height > 0): the value is
\* then carried by LayerHeightInfinite and the number is unused.
LayerHeight(p) == IF p.layers = 0 THEN 0 ELSE p.height \div p.layers

LayerHeightInfinite(p) == p.layers = 0

\* Math.PI * (filamentDiameter / 2)^2, in 1/UNIT mm^2.
FilamentArea(p) == (PiMilli * p.filamentDiameter * p.filamentDiameter) \div (4000 * UNIT)

\* (nozzleDiameter * layerHeight) / filamentArea, scaled by UNIT.
EPerMM(p) == (p.nozzleDiameter * LayerHeight(p)) \div FilamentArea(p)

\* Mutant of GetHeader: every profile gets the marlin commands.
GetHeaderMarlinOnly(p) == <<"G21", "G90", "M82", "G28", "G1 Z5 F">>

\* getHeader: the commands of the preamble (comment lines left out).
GetHeader(p) ==
    <<"G21", "G90", "M82">> \o
    (CASE p.printerType = "wasp"      -> <<"G28", "G1 Z15 F", "M204 S500">>
       [] p.printerType = "potterbot" -> <<"G28", "G1 Z10", "G92 E0">>
       [] OTHER                       -> <<"G28", "G1 Z5 F">>)

\* The G0 line for the start point: X = start.x, Y = start.z, Z = layerHeight.
StartMove(p, start) ==
    [x |-> start.x, y |-> start.z, z |-> LayerHeight(p),
     zInfinite |-> LayerHeightInfinite(p)]

\* Mutant of GcodeStart: the path starts on the inner wall.
GcodeStartInnerWall(p, tex) ==
    StartMove(p, CalculateVesselPoint(p, 0, 1, 0, 1, -p.wallThickness, 0, 1, 1, tex))

\* start = calculateVesselPoint(params, 0, 0, 0, 0, 1.0, textureData)
GcodeStart(p, tex) == StartMove(p, CalculateVesselPoint(p, 0, 1, 0, 1, 0, 0, 1, 1, tex))

\* Mutant of GcodeStep: E is assigned the step's extrusion instead of
\* accumulating it.
GcodeStepNoAccumulate(st, pt, ePerMM) ==
    LET dist == Sqrt((pt.x - st.prevX) * (pt.x - st.prevX)
                     + (pt.z - st.prevY) * (pt.z - st.prevY)
                     + (pt.y - st.prevZ) * (pt.y - st.prevZ))
    IN  [i |-> st.i + 1, prevX |-> pt.x, prevY |-> pt.z, prevZ |-> pt.y,
         currentE |-> (dist * ePerMM) \div UNIT, eNaN |-> FALSE,
         moves |-> Append(st.moves, [x |-> pt.x, y |-> pt.z, z |-> pt.y,
                                      e |-> (dist * ePerMM) \div UNIT, nan |-> {}])]

\* Mutant of GcodeStep: the mesh axes are written without the Y/Z remap.
GcodeStepNoRemap(st, pt, ePerMM) ==
    LET dist == Sqrt((pt.x - st.prevX) * (pt.x - st.prevX)
                     + (pt.y - st.prevY) * (pt.y - st.prevY)
                     + (pt.z - st.prevZ) * (pt.z - st.prevZ))
    IN  [i |-> st.i + 1, prevX |-> pt.x, prevY |-> pt.y, prevZ |-> pt.z,
         currentE |-> st.currentE + (dist * ePerMM) \div UNIT, eNaN |-> FALSE,
         moves |-> Append(st.moves, [x |-> pt.x, y |-> pt.y, z |-> pt.z,
                                      e |-> st.currentE + (dist * ePerMM) \div UNIT,
                                      nan |-> {}])]

\* One pass of the spiral loop body for the surface point pt of step st.i:
\* gx = pt.x, gy = pt.z, gz = pt.y; E accumulates dist * ePerMM.
GcodeStep(st, pt, ePerMM) ==
    LET dist == Sqrt((pt.x - st.prevX) * (pt.x - st.prevX)
                     + (pt.z - st.prevY) * (pt.z - st.prevY)
                     + (pt.y - st.prevZ) * (pt.y - st.prevZ))
    IN  [i |-> st.i + 1, prevX |-> pt.x, prevY |-> pt.z, prevZ |-> pt.y,
         currentE |-> st.currentE + (dist * ePerMM) \div UNIT,
         eNaN |-> st.eNaN \/ pt.nan # {},
         moves |-> Append(st.moves,
                          [x |-> pt.x, y |-> pt.z, z |-> pt.y,
                           e |-> st.currentE + (dist * ePerMM) \div UNIT,
                           nan |-> pt.nan \cup (IF st.eNaN \/ pt.nan # {} THEN {"e"} ELSE {})])]

\* for (let i = 1; i <= totalSteps; i++) { ... }, each pass at
\* u = i / segments, v = i / totalSteps.
RECURSIVE GcodeLoop(_, _, _, _, _)
GcodeLoop(p, tex, st, totalSteps, ePerMM) ==
    IF st.i <= totalSteps
    THEN GcodeLoop(p, tex,
                   GcodeStep(st,
                             CalculateVesselPoint(p, st.i, p.segments, st.i, totalSteps,
                                                  0, 0, 1, 1, tex),
                             ePerMM),
                   totalSteps, ePerMM)
    ELSE st

\* Mutant of GcodeFooter: the head is homed before it is lifted.
GcodeFooterHomeFirst(p) ==
    <<[cmd |-> "G1 E-2 F2400", z |-> 0],
      [cmd |-> "G28 X0 Y0", z |-> 0],
      [cmd |-> "G1 Z", z |-> p.height + 20 * UNIT],
      [cmd |-> "M30", z |-> 0]>>

\* The four footer commands.
GcodeFooter(p) ==
    <<[cmd |-> "G1 E-2 F2400", z |-> 0],
      [cmd |-> "G1 Z", z |-> p.height + 20 * UNIT],
      [cmd |-> "G28 X0 Y0", z |-> 0],
      [cmd |-> "M30", z |-> 0]>>

\* The loop state before the first pass: prevX, prevY, prevZ are the G0 line's
\* coordinates and currentE = 0.
GcodeLoopStart(start) ==
    [i |-> 1, prevX |-> start.x, prevY |-> start.y, prevZ |-> start.z,
     currentE |-> 0, eNaN |-> FALSE, moves |-> <<>>]

\* The program text after the G0 line `start`: header, start, the G1 steps,
\* footer.
GcodeText(p, tex, start) ==
    [header |-> GetHeader(p), start |-> start,
     moves  |-> GcodeLoop(p, tex, GcodeLoopStart(start), p.layers * p.segments,
                          EPerMM(p)).moves,
     footer |-> GcodeFooter(p)]

\* The command words of a program text g in the order of the `gcode +=`
\* statements: the preamble, the G0 line, one G1 step move per pass of the
\* loop, the footer.
GcodeCommands(g) ==
    g.header \o <<"G0">> \o [i \in 1..Len(g.moves) |-> "G1 X Y Z E"]
      \o [i \in 1..Len(g.footer) |-> g.footer[i].cmd]

\* The whole program text.
GcodeFile(p, tex) == GcodeText(p, tex, GcodeStart(p, tex))

-----------------------------------------------------------------------------
(* calculatePrintStats *)

\* The first loop nest: for i in 0..layers, for j in 0..sampleSteps, one
\* surface point each.  Its sum (totalDist) is not part of the result; the
\* model keeps the number of points it evaluates.
StatsWalkSamples(p) ==
    LET sampleSteps == Min(p.segments, 20)
        rows        == IF p.layers >= 0 THEN p.layers + 1 ELSE 0
        cols        == IF sampleSteps >= 0 THEN sampleSteps + 1 ELSE 0
    IN  rows * cols

\* r of the k-th of the four samples of ring i: u = k/4, v = i / layers.
RingR(p, tex, i, k) == CalculateVesselPoint(p, k, 4, i, p.layers, 0, 0, 1, 1, tex).r

\* avgR of ring i: the mean of r at u = 0, 1/4, 1/2, 3/4.
RingAvgR(p, tex, i) ==
    (RingR(p, tex, i, 0) + RingR(p, tex, i, 1) + RingR(p, tex, i, 2) + RingR(p, tex, i, 3))
      \div 4

\* spiralDist: the sum over i in 0..layers-1 of 2 * PI * avgR.
RECURSIVE SpiralDist(_, _, _)
SpiralDist(p, tex, i) ==
    IF i < p.layers
    THEN (2 * PiMilli * RingAvgR(p, tex, i)) \div 1000 + SpiralDist(p, tex, i + 1)
    ELSE 0

\* Clay density 0.0017 g/mm^3, as parts per ten thousand.
ClayDensity10k == 17

\* extrudedVolumeMM3 = spiralDist * nozzleDiameter * layerHeight
ExtrudedVolume(p, spiralDist) ==
    (spiralDist * ((p.nozzleDiameter * LayerHeight(p)) \div UNIT)) \div UNIT

\* The returned PrintStats for the spiral length spiralDist.  With layers = 0
\* the layer height is Infinity and the extruded volume 0 * Infinity = NaN:
\* `nonFinite` names those fields.
PrintStatsOf(p, spiralDist) ==
    [estimatedTime  |-> (spiralDist * 1000) \div p.printSpeed,
     filamentLength |-> ((ExtrudedVolume(p, spiralDist) * UNIT) \div FilamentArea(p)) \div 1000,
     filamentWeight |-> (ExtrudedVolume(p, spiralDist) * ClayDensity10k) \div 10000,
     layerHeight    |-> LayerHeight(p),
     totalLayers    |-> p.layers,
     nonFinite      |-> IF LayerHeightInfinite(p)
                        THEN {"filamentLength", "filamentWeight", "layerHeight"}
                        ELSE {}]

\* The sample n (0-based) of the first loop nest: row i = n div
\* (sampleSteps + 1), column j = n mod (sampleSteps + 1), u = j / sampleSteps.
WalkPoint(p, tex, n) ==
    CalculateVesselPoint(p, n % (Min(p.segments, 20) + 1), Min(p.segments, 20),
                         n \div (Min(p.segments, 20) + 1), p.layers, 0, 0, 1, 1, tex)

\* Math.sqrt(dx*dx + dy*dy + dz*dz) between two points.
PointDist(a, b) ==
    Sqrt((a.x - b.x) * (a.x - b.x) + (a.y - b.y) * (a.y - b.y) + (a.z - b.z) * (a.z - b.z))

\* totalDist: the point-to-point length of the walk from sample n on, prevP
\* being the previous sample.
RECURSIVE TotalDist(_, _, _, _)
TotalDist(p, tex, n, prevP) ==
    IF n < StatsWalkSamples(p)
    THEN PointDist(WalkPoint(p, tex, n), prevP) + TotalDist(p, tex, n + 1, WalkPoint(p, tex, n))
    ELSE 0

\* Mutant of CalculatePrintStats: the result is derived from totalDist.
CalculatePrintStatsFromWalk(p, tex) ==
    PrintStatsOf(p, TotalDist(p, tex, 0, CalculateVesselPoint(p, 0, 1, 0, 1, 0, 0, 1, 1, tex)))

\* calculatePrintStats(params, textureData)
CalculatePrintStats(p, tex) == PrintStatsOf(p, SpiralDist(p, tex, 0))

-----------------------------------------------------------------------------
(* processImageForGeometry *)

\* An image source: its natural size, whether the browser can decode it, and
\* the colour of its pixels (the model's images are of one colour).
Image(id, w, h, decodes, rgb) ==
    [id |-> id, width |-> w, height |-> h, decodes |-> decodes, rgb |-> rgb]

\* params.textureImage = null
NoImage == Image("none", 0, 0, FALSE, <<0, 0, 0>>)

\* const MAX_SIZE = 512
MAX_SIZE == 512

\* canvas.width and canvas.height: the image size, scaled down so that the
\* longer side is at most MAX_SIZE, each rounded down.
CanvasSize(img) ==
    IF img.width > img.height
    THEN IF img.width > MAX_SIZE
         THEN [width |-> MAX_SIZE, height |-> (img.height * MAX_SIZE) \div img.width]
         ELSE [width |-> img.width, height |-> img.height]
    ELSE IF img.height > MAX_SIZE
         THEN [width |-> (img.width * MAX_SIZE) \div img.height, height |-> MAX_SIZE]
         ELSE [width |-> img.width, height |-> img.height]

\* Rec. 601 luma stored in a Uint8Array: 0.299 r + 0.587 g + 0.114 b, truncated
\* and taken modulo 256.
Luminance(rgb) == ((299 * rgb[1] + 587 * rgb[2] + 114 * rgb[3]) \div 1000) % 256

\* ctx.getImageData(0, 0, w, h) throws an IndexSizeError when w or h is 0.
GetImageDataThrows(size) == size.width = 0 \/ size.height = 0

\* The grid the promise resolves with.
ProcessedTexture(img) ==
    LET size == CanvasSize(img)
    IN  Texture(size.width, size.height,
                [i \in 1..(size.width * size.height) |-> Luminance(img.rgb)])

-----------------------------------------------------------------------------
(* The viewport's index buffer *)

\* vertices.length / 3 of the mesh generateVesselMesh returns: the pushes of
\* the shell loops and of the two floor centres.
MeshVertexCount(p) ==
    IF p.wallThickness <= 0
    THEN (p.layers + 1) * (p.segments + 1)
    ELSE 2 * (p.layers + 1) * (p.segments + 1) + 2

\* The largest index generateVesselMesh pushes (layers >= 1, segments >= 1):
\* vase mode, d of the last cell; solid mode, centerFloorIndex.
MeshMaxIndex(p) ==
    IF p.wallThickness <= 0
    THEN p.layers * (p.segments + 1) + p.segments
    ELSE 2 * (p.layers + 1) * (p.segments + 1) + 1

\* new Uint16Array(indices): each element is stored modulo 2^16.
ToUint16(i) == i % 65536

\* What the viewport holds for a parameter set: the vertex count, the largest
\* index of the mesh and that index as stored in the 16-bit buffer.
IndexBuffer(p) ==
    [vertexCount |-> MeshVertexCount(p), maxIndex |-> MeshMaxIndex(p),
     maxIndex16 |-> ToUint16(MeshMaxIndex(p))]

-----------------------------------------------------------------------------
(* State *)

VARIABLES
    params,        \* the VesselParams snapshot
    textureData,   \* the TextureData grid, or NoTexture for null
    point,         \* the last direct call of calculateVesselPoint and its result
    mesh,          \* the mesh last returned by generateVesselMesh
    objFile,       \* the file last written by exportOBJ
    stlFile,       \* the file last written by exportSTL
    plyFile,       \* the file last written by exportPLY
    gcode,         \* the file last written by exportGCODE
    stats,         \* the PrintStats last returned by calculatePrintStats
    requests,      \* the processImageForGeometry promises started so far
    error,         \* the App's error message, "" for null
    viewport,      \* the index buffer the viewport renders
    isSimulating,  \* the App's isSimulating state
    simProgress,   \* the App's simProgress state, in steps of 0.01
    isSimWindowOpen, \* the App's isSimWindowOpen state
    interval,      \* whether the last run of the auto-play effect holds an interval id
    liveTimers,    \* the number of intervals set and not cleared
    userInputs,    \* the number of inputs the user has made to the player
    isGenerating,  \* the App's isGenerating state
    generatedScript, \* the App's generatedScript state, 0 for null
    successMessage,  \* the App's successMessage state, "" for null
    generations    \* the generateProcessingCode calls started so far

\* The state of the print simulator.
simVars == <<isSimulating, simProgress, isSimWindowOpen, interval, liveTimers, userInputs>>

\* The state of script generation, apart from the shared error message.
genVars == <<isGenerating, generatedScript, successMessage, generations>>

vars ==
    <<params, textureData, point, mesh, objFile, stlFile, plyFile, gcode, stats, requests, error,
      viewport, simVars, genVars>>

\* The state of the user interface outside the geometry functions.
uiVars == <<requests, error, viewport, simVars, genVars>>

-----------------------------------------------------------------------------
(* Bounds of the explored inputs *)

MaxLayers == 2

MaxSegments == 4

MaxTexSide == 2

\* A w x h grid of black (0) and white (255) texels in a checkerboard; k picks
\* the colour of the first texel.
Checker(w, h, k) == Texture(w, h, [i \in 1..(w * h) |-> IF (i + k) % 2 = 0 THEN 255 ELSE 0])

\* No texture, and one grid of every size up to MaxTexSide.
Textures ==
    {NoTexture} \cup {Checker(w, h, (w + h + 1) % 2) : w \in 1..MaxTexSide, h \in 1..MaxTexSide}

\* The parameter records with the given resolution and shape values.
ParamSet(layerSet, segmentSet, wallSet, noiseSet, influenceSet, heightSet, freqSet, twistSet) ==
    [height : heightSet, baseRadius : {20 * UNIT}, noiseScale : noiseSet,
     freq2 : freqSet, twist : twistSet, layers : layerSet, segments : segmentSet,
     wallThickness : wallSet, textureInfluence : influenceSet,
     textureImage : {NoImage}, printerType : {"marlin"}, nozzleDiameter : {(12 * UNIT) \div 10},
     filamentDiameter : {(175 * UNIT) \div 100}, printSpeed : {1200}]

\* Valid parameters: layers >= 1, segments >= 3, in vase and in solid mode.
ValidParams ==
    ParamSet(1..MaxLayers, 3..MaxSegments, {0, 2 * UNIT}, {0, 50 * UNIT},
             {30 * UNIT}, {50 * UNIT, 150 * UNIT}, {3}, {1000})

\* Parameters as the exported functions accept them: any integers for layers
\* and segments, zero and negative ones included.
RawParams ==
    ParamSet(-1..MaxLayers, (-1..0) \cup (3..MaxSegments), {0, 2 * UNIT}, {0, 50 * UNIT},
             {0, 30 * UNIT}, {150 * UNIT}, {3}, {1000})

\* Parameters for direct calls of the evaluator, extreme amplitudes included.
PointParams ==
    ParamSet({1}, {3}, {0, 2 * UNIT}, {0, 50 * UNIT, 5000 * UNIT},
             {0, 5000 * UNIT}, {150 * UNIT}, {3}, {1000})

\* u as a fraction <<numerator, denominator>>: 0, 1/3, 5/4, 3.
PointUs == {<<0, 1>>, <<1, 3>>, <<5, 4>>, <<3, 1>>}

\* v as a fraction: 0, 1/2, 1.
PointVs == {<<0, 2>>, <<1, 2>>, <<2, 2>>}

\* type PrinterType = 'marlin' | 'wasp' | 'potterbot'
PrinterTypes == {"marlin", "wasp", "potterbot"}

\* Valid parameters with every printer profile, and with a printerType string
\* outside PrinterType.
PrinterParams ==
    {[p EXCEPT !.printerType = t] :
        p \in ParamSet(1..MaxLayers, 3..MaxSegments, {0, 2 * UNIT}, {0, 50 * UNIT},
                       {30 * UNIT}, {150 * UNIT}, {3}, {1000}),
        t \in PrinterTypes \cup {"custom"}}

\* A solid-mode parameter set, for sequences of calls of all the functions.
CallParams ==
    ParamSet({1}, {3}, {2 * UNIT}, {50 * UNIT}, {30 * UNIT}, {150 * UNIT}, {3}, {1000})

\* simProgress is counted in steps of 0.01: SimStep is one step and SimFull
\* is the progress 1.
SimStep == 1

SimFull == 100

-----------------------------------------------------------------------------
(* Initial states *)

NoPoint ==
    [called |-> FALSE, uN |-> 0, uD |-> 1, vN |-> 0, vD |-> 1, radiusOffset |-> 0,
     inner |-> FALSE, res |-> [x |-> 0, y |-> 0, z |-> 0, r |-> 0, nan |-> {}]]

NoMesh == [built |-> FALSE, vertices |-> <<>>, indices |-> <<>>]

NoObj == [written |-> FALSE, vertexCount |-> 0, faceCount |-> 0, v |-> <<>>, f |-> <<>>]

\* No STL and no PLY file written yet.
NoStl == [written |-> FALSE, facets |-> <<>>]

NoPly == [written |-> FALSE, vertexCount |-> 0, faceCount |-> 0, v |-> <<>>, f |-> <<>>]

NoGcode ==
    [written |-> FALSE, header |-> <<>>,
     start |-> [x |-> 0, y |-> 0, z |-> 0, zInfinite |-> FALSE],
     moves |-> <<>>, footer |-> <<>>]

NoStats ==
    [computed |-> FALSE, estimatedTime |-> 0, filamentLength |-> 0, filamentWeight |-> 0,
     layerHeight |-> 0, totalLayers |-> 0, nonFinite |-> {}]

InitResults ==
    /\ point = NoPoint
    /\ mesh = NoMesh
    /\ objFile = NoObj
    /\ stlFile = NoStl
    /\ plyFile = NoPly
    /\ gcode = NoGcode
    /\ stats = NoStats

\* useState(false), useState(1), useState(false); no effect has set a timer.
InitSim ==
    /\ isSimulating = FALSE
    /\ simProgress = SimFull
    /\ isSimWindowOpen = FALSE
    /\ interval = FALSE
    /\ liveTimers = 0
    /\ userInputs = 0

\* useState(null), useState(false), useState(null); no request started.
InitGen ==
    /\ isGenerating = FALSE
    /\ generatedScript = 0
    /\ successMessage = ""
    /\ generations = <<>>

InitUi ==
    /\ requests = <<>>
    /\ error = ""
    /\ viewport = IndexBuffer(params)
    /\ InitSim
    /\ InitGen

Init ==
    /\ params \in ValidParams
    /\ textureData \in Textures
    /\ InitResults
    /\ InitUi

InitRaw ==
    /\ params \in RawParams
    /\ textureData \in {NoTexture, Checker(2, 2, 0)}
    /\ InitResults
    /\ InitUi

InitPoint ==
    /\ params \in PointParams
    /\ textureData \in Textures
    /\ InitResults
    /\ InitUi

InitPrinter ==
    /\ params \in PrinterParams
    /\ textureData \in Textures
    /\ InitResults
    /\ InitUi

InitCalls ==
    /\ params \in CallParams
    /\ textureData = Checker(2, 2, 0)
    /\ InitResults
    /\ InitUi

\* INITIAL_PARAMS, and the App's initial state.
INITIAL_PARAMS ==
    [height |-> 150 * UNIT, baseRadius |-> 40 * UNIT, noiseScale |-> 10 * UNIT,
     freq2 |-> 10, layers |-> 150, twist |-> 1000, segments |-> 120,
     wallThickness |-> 2 * UNIT, printerType |-> "marlin",
     nozzleDiameter |-> (12 * UNIT) \div 10, filamentDiameter |-> (175 * UNIT) \div 100,
     printSpeed |-> 1200, textureImage |-> NoImage, textureInfluence |-> 10 * UNIT]

InitApp ==
    /\ params = INITIAL_PARAMS
    /\ textureData = NoTexture
    /\ InitResults
    /\ InitUi

-----------------------------------------------------------------------------
(* Operations *)

\* A direct call calculateVesselPoint(params, u, v, radiusOffset, ...), either
\* with the default height arguments or with the inner shell's.
EvalPoint ==
    \E u \in PointUs, v \in PointVs, inner \in BOOLEAN,
       ro \in {0, -params.wallThickness, -(5000 * UNIT)} :
        /\ point' = [called |-> TRUE, uN |-> u[1], uD |-> u[2], vN |-> v[1], vD |-> v[2],
                     radiusOffset |-> ro, inner |-> inner,
                     res |-> IF inner
                             THEN CalculateVesselPoint(params, u[1], u[2], v[1], v[2], ro,
                                      params.wallThickness,
                                      InnerHeightScaleNum(params), params.height,
                                      textureData)
                             ELSE CalculateVesselPoint(params, u[1], u[2], v[1], v[2], ro,
                                      0, 1, 1, textureData)]
        /\ UNCHANGED <<params, textureData, mesh, objFile, stlFile, plyFile, gcode, stats, uiVars>>

\* The viewport's useMemo: generateVesselMesh(params, textureData).
GenerateMesh ==
    /\ mesh' = [built |-> TRUE] @@ GenerateVesselMesh(params, textureData)
    /\ UNCHANGED <<params, textureData, point, objFile, stlFile, plyFile, gcode, stats, uiVars>>

\* exportOBJ(params, textureData)
ExportOBJ ==
    /\ objFile' = [written |-> TRUE] @@ ObjFile(params, textureData)
    /\ UNCHANGED <<params, textureData, point, mesh, stlFile, plyFile, gcode, stats, uiVars>>

\* exportSTL(params, textureData)
ExportSTL ==
    /\ stlFile' = [written |-> TRUE] @@ StlFile(params, textureData)
    /\ UNCHANGED <<params, textureData, point, mesh, objFile, plyFile, gcode, stats, uiVars>>

\* exportPLY(params, textureData)
ExportPLY ==
    /\ plyFile' = [written |-> TRUE] @@ PlyFile(params, textureData)
    /\ UNCHANGED <<params, textureData, point, mesh, objFile, stlFile, gcode, stats, uiVars>>

\* exportGCODE(params, textureData)
ExportGCODE ==
    /\ gcode' = [written |-> TRUE] @@ GcodeFile(params, textureData)
    /\ UNCHANGED <<params, textureData, point, mesh, objFile, stlFile, plyFile, stats, uiVars>>

\* Mutant of ComputeStats: the call also empties the mesh returned earlier.
ComputeStatsClearsMesh ==
    /\ stats' = [computed |-> TRUE] @@ CalculatePrintStats(params, textureData)
    /\ mesh' = NoMesh
    /\ UNCHANGED <<params, textureData, point, objFile, stlFile, plyFile, gcode, uiVars>>

\* The control panel's useMemo: calculatePrintStats(params, textureData).
ComputeStats ==
    /\ stats' = [computed |-> TRUE] @@ CalculatePrintStats(params, textureData)
    /\ UNCHANGED <<params, textureData, point, mesh, objFile, stlFile, plyFile, gcode, uiVars>>

Next == GenerateMesh \/ ExportOBJ \/ ExportGCODE \/ ComputeStats

\* The geometry and CAM functions applied to valid parameters.
Spec == Init /\ [][Next]_vars

\* The same functions applied to any parameters.
SpecRaw == InitRaw /\ [][Next]_vars

\* Direct calls of the surface evaluator.
SpecPoint == InitPoint /\ [][EvalPoint]_vars

\* exportGCODE applied to valid parameters of every printer profile.
SpecPrinter == InitPrinter /\ [][ExportGCODE]_vars

\* Any sequence of calls of the evaluator, the mesh generator, the statistics
\* and the four exporters on one parameter snapshot.
NextCalls ==
    EvalPoint \/ GenerateMesh \/ ExportOBJ \/ ExportSTL \/ ExportPLY \/ ExportGCODE
      \/ ComputeStats

SpecCalls == InitCalls /\ [][NextCalls]_vars

\* exportSTL applied to valid parameters.
SpecStl == Init /\ [][ExportSTL]_vars

\* generateVesselMesh applied to valid parameters.
SpecMesh == Init /\ [][GenerateMesh]_vars

\* calculatePrintStats applied to valid parameters.
SpecStats == Init /\ [][ComputeStats]_vars

\* exportGCODE applied to valid parameters.
SpecGcode == Init /\ [][ExportGCODE]_vars

-----------------------------------------------------------------------------
(* Texture ingestion: the App's texture effect *)

\* Bound on the number of image requests started in one behaviour.
MaxRequests == 3

\* The images a user may pick: a small one, one that is scaled down, one whose
\* scaled height rounds down to 0, and one the browser cannot decode.
Images ==
    {Image("A", 2, 2, TRUE, <<255, 255, 255>>),
     Image("B", 1024, 2, TRUE, <<200, 100, 50>>),
     Image("Wide", 600, 1, TRUE, <<10, 20, 30>>),
     Image("Broken", 0, 0, FALSE, <<0, 0, 0>>)}

\* handleChange('textureImage', dataUrl) from an upload or a capture, and the
\* effect it triggers: processImageForGeometry(params.textureImage) starts.
SetTextureImage ==
    \E img \in Images :
        /\ img # params.textureImage
        /\ Len(requests) < MaxRequests
        /\ params' = [params EXCEPT !.textureImage = img]
        /\ requests' = Append(requests, [image |-> img, status |-> "loading"])
        /\ UNCHANGED <<textureData, point, mesh, objFile, stlFile, plyFile, gcode, stats, error, viewport,
                       simVars, genVars>>

\* clearImage, and the effect it triggers: setTextureData(null).
ClearImage ==
    /\ params.textureImage # NoImage
    /\ params' = [params EXCEPT !.textureImage = NoImage]
    /\ textureData' = NoTexture
    /\ UNCHANGED <<point, mesh, objFile, stlFile, plyFile, gcode, stats, requests, error, viewport,
                   simVars, genVars>>

\* img.onload of request k with a 2d context: the grid is read and the promise
\* resolves, then setTextureData(data); or getImageData throws inside the
\* handler and the promise is never settled.
ImageLoaded ==
    \E k \in 1..Len(requests) :
        /\ requests[k].status = "loading"
        /\ requests[k].image.decodes
        /\ IF GetImageDataThrows(CanvasSize(requests[k].image))
           THEN /\ requests' = [requests EXCEPT ![k].status = "abandoned"]
                /\ UNCHANGED textureData
           ELSE /\ requests' = [requests EXCEPT ![k].status = "resolved"]
                /\ textureData' = ProcessedTexture(requests[k].image)
        /\ UNCHANGED <<params, point, mesh, objFile, stlFile, plyFile, gcode, stats, error, viewport,
                       simVars, genVars>>

\* img.onload of request k when canvas.getContext('2d') returns null: reject,
\* then setError.
ImageLoadedNoContext ==
    \E k \in 1..Len(requests) :
        /\ requests[k].status = "loading"
        /\ requests[k].image.decodes
        /\ requests' = [requests EXCEPT ![k].status = "rejected"]
        /\ error' = "Failed to process image data"
        /\ UNCHANGED <<params, textureData, point, mesh, objFile, stlFile, plyFile, gcode, stats, viewport,
                       simVars, genVars>>

\* img.onerror of request k: reject, then setError.
ImageFailed ==
    \E k \in 1..Len(requests) :
        /\ requests[k].status = "loading"
        /\ ~requests[k].image.decodes
        /\ requests' = [requests EXCEPT ![k].status = "rejected"]
        /\ error' = "Failed to process image data"
        /\ UNCHANGED <<params, textureData, point, mesh, objFile, stlFile, plyFile, gcode, stats, viewport,
                       simVars, genVars>>

\* The error toast's close button: setError(null).
DismissError ==
    /\ error # ""
    /\ error' = ""
    /\ UNCHANGED <<params, textureData, point, mesh, objFile, stlFile, plyFile, gcode, stats, requests, viewport,
                   simVars, genVars>>

NextImage ==
    SetTextureImage \/ ClearImage \/ ImageLoaded \/ ImageLoadedNoContext \/ ImageFailed
      \/ DismissError

\* The App choosing, clearing and decoding texture images.
SpecImage == InitApp /\ [][NextImage]_vars

-----------------------------------------------------------------------------
(* The resolution sliders and the viewport *)

\* renderSlider(..., "layers", 50, 400, 10)
LayersMin == 50

LayersMax == 400

LayersStep == 10

\* renderSlider("Mesh Detail", "segments", 30, 200, 10)
SegmentsMin == 30

SegmentsMax == 200

SegmentsStep == 10

\* renderSlider(..., "wallThickness", 0, 10, 0.5, "mm"): the number of steps.
WallSteps == 20

\* The values a range input offers: min, min + step, ... up to max.
SliderValues(min, max, step) == {min + k * step : k \in 0..((max - min) \div step)}

\* handleChange(key, value), and the viewport's useMemo for the new params.
SetLayers ==
    \E v \in SliderValues(LayersMin, LayersMax, LayersStep) :
        /\ params' = [params EXCEPT !.layers = v]
        /\ viewport' = IndexBuffer(params')
        /\ UNCHANGED <<textureData, point, mesh, objFile, stlFile, plyFile, gcode, stats, requests, error,
                       simVars, genVars>>

SetSegments ==
    \E v \in SliderValues(SegmentsMin, SegmentsMax, SegmentsStep) :
        /\ params' = [params EXCEPT !.segments = v]
        /\ viewport' = IndexBuffer(params')
        /\ UNCHANGED <<textureData, point, mesh, objFile, stlFile, plyFile, gcode, stats, requests, error,
                       simVars, genVars>>

SetWallThickness ==
    \E k \in 0..WallSteps :
        /\ params' = [params EXCEPT !.wallThickness = (k * UNIT) \div 2]
        /\ viewport' = IndexBuffer(params')
        /\ UNCHANGED <<textureData, point, mesh, objFile, stlFile, plyFile, gcode, stats, requests, error,
                       simVars, genVars>>

NextSliders == SetLayers \/ SetSegments \/ SetWallThickness

\* The App with the user moving the resolution and thickness sliders.
SpecSliders == InitApp /\ [][NextSliders]_vars

-----------------------------------------------------------------------------
(* Print simulator: the play button, the progress slider, the simulation
   window and the auto-play effect *)

\* Bound on the number of inputs the user makes to the player in one behaviour.
MaxUserInputs == 3

\* The positions the user drags the progress slider to (min 0, max 1).
SliderStops == {0, SimFull \div 2, SimFull}

\* Mutant of SimProgressUpdater: at the end the progress starts over.
SimProgressUpdaterWraps(prev) ==
    IF prev >= SimFull
    THEN [progress |-> 0, stop |-> FALSE]
    ELSE [progress |-> prev + SimStep, stop |-> FALSE]

\* Mutant of SimProgressUpdater: the end of the print is not tested.
SimProgressUpdaterNoStop(prev) == [progress |-> prev + SimStep, stop |-> FALSE]

\* The updater the interval passes to setSimProgress: at prev >= 1 it calls
\* setIsSimulating(false) and returns 1, otherwise it returns prev + 0.01.
\* (In double arithmetic the sum of n steps from a slider position k/100 is
\* within 1e-15 of (k + n)/100 and first reaches >= 1 after exactly 100 - k
\* steps, so the test prev >= 1 has the outcome it has on the step count.)
SimProgressUpdater(prev) ==
    IF prev >= SimFull
    THEN [progress |-> SimFull, stop |-> TRUE]
    ELSE [progress |-> prev + SimStep, stop |-> FALSE]

\* The App's wrapper around setIsSimulating: if (v) setIsSimWindowOpen(true).
WindowAfterSetIsSimulating(v, open) == IF v THEN TRUE ELSE open

\* The App's wrapper around setSimProgress: if (v < 1) setIsSimWindowOpen(true).
\* The interval passes an updater function, for which v < 1 is false.
WindowAfterSetSimProgress(isUpdater, v, open) ==
    IF ~isUpdater /\ v < SimFull THEN TRUE ELSE open

\* Mutant of AutoPlayEffect: the effect returns no cleanup.
AutoPlayEffectNoCleanup(sim, live, held) ==
    [liveTimers |-> live + (IF sim THEN 1 ELSE 0), interval |-> sim]

\* One re-run of the auto-play effect after a render of the App (its
\* dependencies setSimProgress and setIsSimulating are new functions at every
\* render): the cleanup of the previous run clears the interval that run
\* holds, then an interval is set if isSimulating.
AutoPlayEffect(sim, live, held) ==
    [liveTimers |-> (live - (IF held THEN 1 ELSE 0)) + (IF sim THEN 1 ELSE 0),
     interval   |-> sim]

\* The render that follows a state change, with the effect's re-run.
EffectRerun(sim) ==
    /\ liveTimers' = AutoPlayEffect(sim, liveTimers, interval).liveTimers
    /\ interval' = AutoPlayEffect(sim, liveTimers, interval).interval

\* The play/pause button: setIsSimulating(!isSimulating).
TogglePlay ==
    /\ userInputs < MaxUserInputs
    /\ userInputs' = userInputs + 1
    /\ isSimulating' = ~isSimulating
    /\ isSimWindowOpen' = WindowAfterSetIsSimulating(~isSimulating, isSimWindowOpen)
    /\ EffectRerun(~isSimulating)
    /\ UNCHANGED <<simProgress, genVars>>
    /\ UNCHANGED <<params, textureData, point, mesh, objFile, stlFile, plyFile, gcode, stats,
                   requests, error, viewport>>

\* The progress slider's onChange: setSimProgress(v); setIsSimulating(false).
DragProgress ==
    \E v \in SliderStops :
        /\ userInputs < MaxUserInputs
        /\ userInputs' = userInputs + 1
        /\ simProgress' = v
        /\ isSimulating' = FALSE
        /\ isSimWindowOpen' =
              WindowAfterSetIsSimulating(FALSE,
                  WindowAfterSetSimProgress(FALSE, v, isSimWindowOpen))
        /\ EffectRerun(FALSE)
        /\ UNCHANGED genVars
        /\ UNCHANGED <<params, textureData, point, mesh, objFile, stlFile, plyFile, gcode,
                       stats, requests, error, viewport>>

\* Mutant of CloseWindow: the window closes and playback goes on.
CloseWindowKeepsPlaying ==
    /\ isSimWindowOpen
    /\ userInputs < MaxUserInputs
    /\ userInputs' = userInputs + 1
    /\ isSimWindowOpen' = FALSE
    /\ EffectRerun(isSimulating)
    /\ UNCHANGED <<isSimulating, simProgress, genVars>>
    /\ UNCHANGED <<params, textureData, point, mesh, objFile, stlFile, plyFile, gcode, stats,
                   requests, error, viewport>>

\* The simulation window's onClose: setIsSimWindowOpen(false);
\* setIsSimulating(false).  The close button exists only in the open window.
CloseWindow ==
    /\ isSimWindowOpen
    /\ userInputs < MaxUserInputs
    /\ userInputs' = userInputs + 1
    /\ isSimWindowOpen' = FALSE
    /\ isSimulating' = FALSE
    /\ EffectRerun(FALSE)
    /\ UNCHANGED <<simProgress, genVars>>
    /\ UNCHANGED <<params, textureData, point, mesh, objFile, stlFile, plyFile, gcode, stats,
                   requests, error, viewport>>

\* One firing of a live interval: setSimProgress(updater), the render that
\* follows and the effect's re-run.
Tick ==
    /\ liveTimers > 0
    /\ simProgress' = SimProgressUpdater(simProgress).progress
    /\ isSimulating' = (isSimulating /\ ~SimProgressUpdater(simProgress).stop)
    /\ isSimWindowOpen' =
          WindowAfterSetIsSimulating(FALSE,
              WindowAfterSetSimProgress(TRUE, 0, isSimWindowOpen))
    /\ EffectRerun(isSimulating /\ ~SimProgressUpdater(simProgress).stop)
    /\ UNCHANGED <<userInputs, genVars>>
    /\ UNCHANGED <<params, textureData, point, mesh, objFile, stlFile, plyFile, gcode, stats,
                   requests, error, viewport>>

NextSim == TogglePlay \/ DragProgress \/ CloseWindow \/ Tick

\* The App with the user operating the print simulator.
SpecSim == InitApp /\ [][NextSim]_vars

\* The same, with the browser firing every interval that stays live.
SpecPlayback == InitApp /\ [][NextSim]_vars /\ WF_vars(Tick)

-----------------------------------------------------------------------------
(* Script generation: handleGenerate *)

\* Bound on the number of generateProcessingCode calls in one behaviour.
MaxGenerations == 2

\* The messages handleGenerate shows.
GenerateSuccessMessage ==
    "Processing script generated successfully! Ready for copy or export."

GenerateErrorMessage ==
    "Failed to generate code. Please check your API key and try again."

\* The Generate button (disabled while isGenerating): handleGenerate up to its
\* await.  The k-th call, when it resolves, returns the script k.
StartGenerate ==
    /\ ~isGenerating
    /\ Len(generations) < MaxGenerations
    /\ isGenerating' = TRUE
    /\ error' = ""
    /\ successMessage' = ""
    /\ generations' = Append(generations, "pending")
    /\ UNCHANGED <<generatedScript, simVars>>
    /\ UNCHANGED <<params, textureData, point, mesh, objFile, stlFile, plyFile, gcode, stats,
                   requests, viewport>>

\* generateProcessingCode resolves: the try block's two setters, then finally.
GenerateResolved ==
    \E k \in 1..Len(generations) :
        /\ generations[k] = "pending"
        /\ generations' = [generations EXCEPT ![k] = "resolved"]
        /\ generatedScript' = k
        /\ successMessage' = GenerateSuccessMessage
        /\ isGenerating' = FALSE
        /\ UNCHANGED <<error, simVars>>
        /\ UNCHANGED <<params, textureData, point, mesh, objFile, stlFile, plyFile, gcode,
                       stats, requests, viewport>>

\* Mutant of GenerateRejected: the handler has no finally block.
GenerateRejectedStaysBusy ==
    \E k \in 1..Len(generations) :
        /\ generations[k] = "pending"
        /\ generations' = [generations EXCEPT ![k] = "rejected"]
        /\ error' = GenerateErrorMessage
        /\ UNCHANGED <<isGenerating, generatedScript, successMessage, simVars>>
        /\ UNCHANGED <<params, textureData, point, mesh, objFile, stlFile, plyFile, gcode,
                       stats, requests, viewport>>

\* generateProcessingCode rejects (the API call fails, the response has no
\* text, or JSON.parse throws): the catch block, then finally.
GenerateRejected ==
    \E k \in 1..Len(generations) :
        /\ generations[k] = "pending"
        /\ generations' = [generations EXCEPT ![k] = "rejected"]
        /\ error' = GenerateErrorMessage
        /\ isGenerating' = FALSE
        /\ UNCHANGED <<generatedScript, successMessage, simVars>>
        /\ UNCHANGED <<params, textureData, point, mesh, objFile, stlFile, plyFile, gcode,
                       stats, requests, viewport>>

\* The success toast's close button: setSuccessMessage(null).
DismissSuccess ==
    /\ successMessage # ""
    /\ successMessage' = ""
    /\ UNCHANGED <<isGenerating, generatedScript, generations, error, simVars>>
    /\ UNCHANGED <<params, textureData, point, mesh, objFile, stlFile, plyFile, gcode, stats,
                   requests, viewport>>

NextGenerate ==
    StartGenerate \/ GenerateResolved \/ GenerateRejected \/ DismissSuccess \/ DismissError
      \/ SetTextureImage \/ ImageFailed

\* The App generating scripts while texture images are chosen and some fail to
\* decode, the other writer of the error message.
SpecGenerate == InitApp /\ [][NextGenerate]_vars

-----------------------------------------------------------------------------
(* Claims *)

\* The point of the last direct call, recomputed before the clamp.
PointRawRadius ==
    RawRadius(params, point.uN, point.uD, point.vN, point.vD, point.radiusOffset,
              textureData)

\* C1: for every u >= 0, v in [0,1], radiusOffset, noise and texture
\* parameters and valid texture grid, calculateVesselPoint returns a radius
\* r >= 0.1 mm, and no NaN: it clamps instead of failing.
C1_RadiusFloor ==
    point.called => (point.res.nan = {} /\ point.res.r >= MinRadius)

\* C1 witness: a call with radiusOffset = -wallThickness whose radius before
\* the clamp is below 0.1 mm and whose result is exactly the floor.
C1_Witness ==
    /\ point.called
    /\ params.wallThickness > 0
    /\ point.radiusOffset = -params.wallThickness
    /\ PointRawRadius < MinRadius
    /\ point.res.r = MinRadius

\* C2: for layers >= 1 and segments >= 3, in vase and in solid mode, every
\* mesh index is >= 0 and < the vertex count, and every OBJ face index is in
\* 1..vertexCount.
C2_IndicesInRange ==
    /\ mesh.built =>
         \A i \in 1..Len(mesh.indices) :
            mesh.indices[i] >= 0 /\ mesh.indices[i] < Len(mesh.vertices)
    /\ objFile.written =>
         \A t \in 1..Len(objFile.f) : \A k \in 1..3 :
            objFile.f[t][k] >= 1 /\ objFile.f[t][k] <= objFile.vertexCount

\* C2 witness: a solid mesh and its OBJ file, one face of which names the last
\* vertex and one the first.
C2_Witness ==
    /\ mesh.built /\ objFile.written
    /\ params.wallThickness > 0
    /\ \E t \in 1..Len(objFile.f) : objFile.f[t][1] = objFile.vertexCount
    /\ \E t \in 1..Len(objFile.f) : \E k \in 1..3 : objFile.f[t][k] = 1
    /\ \E i \in 1..Len(mesh.indices) : mesh.indices[i] = Len(mesh.vertices) - 1

\* C3: in vase mode the mesh has exactly (layers+1)*(segments+1) vertices and
\* 2*layers*segments triangles.
C3_VaseCounts ==
    (mesh.built /\ params.wallThickness <= 0) =>
        /\ Len(mesh.vertices) = (params.layers + 1) * (params.segments + 1)
        /\ Len(mesh.indices) = 3 * (2 * params.layers * params.segments)

\* C3 witness: a vase-mode mesh of more than one layer and more than three
\* segments.
C3_Witness ==
    /\ mesh.built
    /\ params.wallThickness <= 0
    /\ params.layers >= 2 /\ params.segments >= 4
    /\ Len(mesh.indices) >= 48

\* C4: the cumulative extrusion E of the G1 moves never decreases, and the
\* first is >= 0.
C4_ExtrusionMonotone ==
    gcode.written =>
        /\ \A i \in 1..Len(gcode.moves) : gcode.moves[i].nan = {}
        /\ Len(gcode.moves) >= 1 => gcode.moves[1].e >= 0
        /\ \A i \in 2..Len(gcode.moves) : gcode.moves[i].e >= gcode.moves[i - 1].e

\* C4 witness: a program of at least six moves whose E grows strictly at
\* every step.
C4_Witness ==
    /\ gcode.written
    /\ Len(gcode.moves) >= 6
    /\ gcode.moves[1].e > 0
    /\ \A i \in 2..Len(gcode.moves) : gcode.moves[i].e > gcode.moves[i - 1].e

\* The surface point of spiral step i: u = i/segments, v = i/(layers*segments).
SpiralPoint(i) ==
    CalculateVesselPoint(params, i, params.segments, i, params.layers * params.segments,
                         0, 0, 1, 1, textureData)

\* C5: exportGCODE emits exactly layers*segments G1 moves; move i is the
\* surface point at u = i/segments, v = i/(layers*segments) written with
\* X = mesh x, Y = mesh z, Z = mesh y; the last move has Z = height.
C5_SpiralMoves ==
    gcode.written =>
        /\ Len(gcode.moves) = params.layers * params.segments
        /\ \A i \in 1..Len(gcode.moves) :
              /\ gcode.moves[i].x = SpiralPoint(i).x
              /\ gcode.moves[i].y = SpiralPoint(i).z
              /\ gcode.moves[i].z = SpiralPoint(i).y
        /\ gcode.moves[Len(gcode.moves)].z = params.height

\* C5 witness: a written program whose moves leave the XZ plane of the mesh
\* (some move has a machine Y different from its machine Z), ending at the
\* vessel height.
C5_Witness ==
    /\ gcode.written
    /\ Len(gcode.moves) = params.layers * params.segments
    /\ params.layers >= 2
    /\ \E i \in 1..Len(gcode.moves) :
          gcode.moves[i].y # gcode.moves[i].z /\ gcode.moves[i].y # 0
    /\ gcode.moves[Len(gcode.moves)].z = params.height

\* Index (1-based) of the vertex of column x in the bottom / top row of the
\* outer and inner shells of a solid mesh.
OuterTopAt(x) == params.layers * (params.segments + 1) + x + 1

InnerBottomAt(x) == (params.layers + 1) * (params.segments + 1) + x + 1

InnerTopAt(x) ==
    (params.layers + 1) * (params.segments + 1) + params.layers * (params.segments + 1) + x + 1

\* C6: in solid mode the inner rows run from y = wallThickness (v = 0) to
\* y = height (v = 1): the inner top row is level with the outer top row.
C6_InnerShellSpan ==
    (mesh.built /\ params.wallThickness > 0) =>
        \A x \in 0..params.segments :
            /\ mesh.vertices[InnerBottomAt(x)].y = params.wallThickness
            /\ mesh.vertices[InnerTopAt(x)].y = params.height
            /\ mesh.vertices[InnerTopAt(x)].y = mesh.vertices[OuterTopAt(x)].y

\* C6 witness: a solid mesh of two layers whose inner middle row lies strictly
\* between the floor height and the rim.
C6_Witness ==
    /\ mesh.built
    /\ params.wallThickness > 0
    /\ params.layers = 2
    /\ mesh.vertices[InnerBottomAt(0) + params.segments + 1].y > params.wallThickness
    /\ mesh.vertices[InnerBottomAt(0) + params.segments + 1].y < params.height
    /\ mesh.vertices[InnerTopAt(0)].y = params.height

\* The t-th triangle (1-based) of the index buffer.
Triangle(t) == <<mesh.indices[3 * t - 2], mesh.indices[3 * t - 1], mesh.indices[3 * t]>>

\* Number of triangles before the outer floor fan: both shells and the rim.
TrianglesBeforeFloor == 4 * params.layers * params.segments + 2 * params.segments

\* C7: in solid mode the mesh has 2*(layers+1)*(segments+1)+2 vertices; the
\* last two are (0,0,0) and (0,wallThickness,0); every outer floor triangle
\* starts at the first of them and every inner floor triangle at the second.
C7_FloorApexes ==
    (mesh.built /\ params.wallThickness > 0) =>
        LET n == 2 * (params.layers + 1) * (params.segments + 1)
        IN  /\ Len(mesh.vertices) = n + 2
            /\ mesh.vertices[n + 1] = [x |-> 0, y |-> 0, z |-> 0, nan |-> {}]
            /\ mesh.vertices[n + 2] =
                  [x |-> 0, y |-> params.wallThickness, z |-> 0, nan |-> {}]
            /\ Len(mesh.indices) = 3 * (TrianglesBeforeFloor + 2 * params.segments)
            /\ \A x \in 1..params.segments :
                  /\ Triangle(TrianglesBeforeFloor + x)[1] = n
                  /\ Triangle(TrianglesBeforeFloor + params.segments + x)[1] = n + 1

\* C7 witness: a solid mesh whose two apexes differ and whose last triangle
\* joins the inner apex to the inner bottom row.
C7_Witness ==
    /\ mesh.built
    /\ params.wallThickness > 0
    /\ mesh.vertices[Len(mesh.vertices)] # mesh.vertices[Len(mesh.vertices) - 1]
    /\ Triangle(Len(mesh.indices) \div 3)[1] = Len(mesh.vertices) - 1
    /\ Triangle(Len(mesh.indices) \div 3)[3] = InnerBottomAt(params.segments) - 1

\* C8 (as claimed): with layers <= 0 or segments <= 0 no mesh, statistics or
\* G-code is produced.
C8_FailsFast ==
    (params.layers <= 0 \/ params.segments <= 0) =>
        (~mesh.built /\ ~stats.computed /\ ~gcode.written)

\* The mesh summary used for the viewport agrees with the mesh itself.
MeshSummaryAgrees ==
    mesh.built =>
        /\ Len(mesh.vertices) = MeshVertexCount(params)
        /\ \A i \in 1..Len(mesh.indices) : mesh.indices[i] <= MeshMaxIndex(params)
        /\ \E i \in 1..Len(mesh.indices) : mesh.indices[i] = MeshMaxIndex(params)

\* C9 (as claimed): every grid handed to the core has width, height >= 1 and
\* width*height texels, and an image whose scaled width or height rounds down
\* to 0 ends in a rejection: no request is left that never settles.
C9_IngestionRejects ==
    /\ textureData.present =>
          /\ textureData.width >= 1 /\ textureData.height >= 1
          /\ Len(textureData.data) = textureData.width * textureData.height
    /\ \A k \in 1..Len(requests) :
          GetImageDataThrows(CanvasSize(requests[k].image)) /\ requests[k].image.decodes
            => requests[k].status \in {"loading", "rejected"}

\* C10 (as claimed): for every selectable layers / segments and either wall
\* mode the vertex count is under 65535 and the largest index is unchanged by
\* the 16-bit index buffer.
C10_IndicesFit16 ==
    /\ viewport.vertexCount < 65535
    /\ viewport.maxIndex16 = viewport.maxIndex

\* The largest number of whole turns added to u.
MaxTurns == 2

\* The last direct call repeated at u + k, all other arguments unchanged.
ShiftedPoint(k) ==
    IF point.inner
    THEN CalculateVesselPoint(params, point.uN + k * point.uD, point.uD, point.vN, point.vD,
                              point.radiusOffset, params.wallThickness,
                              InnerHeightScaleNum(params), params.height, textureData)
    ELSE CalculateVesselPoint(params, point.uN + k * point.uD, point.uD, point.vN, point.vD,
                              point.radiusOffset, 0, 1, 1, textureData)

\* Two lengths closer than this are taken as the same coordinate: 5 mm, far
\* above the rounding of the fixed-point sine.
SeamTolerance == 5 * UNIT

\* The point q is the point pt, within the tolerance on x, y, z and r.
SamePoint(q, pt) ==
    /\ q.nan = pt.nan
    /\ Abs(q.x - pt.x) <= SeamTolerance /\ Abs(q.y - pt.y) <= SeamTolerance
    /\ Abs(q.z - pt.z) <= SeamTolerance /\ Abs(q.r - pt.r) <= SeamTolerance

\* C11 (as claimed): for u in [0,1), v in [0,1], every k >= 0 and a noise
\* amplitude within the panel's range, calculateVesselPoint returns at u + k
\* the same x, y, z and r as at u, also for a noise frequency of 1.5.
C11_PeriodicInU ==
    (point.called /\ point.uN < point.uD /\ params.noiseScale <= 50 * UNIT) =>
        \A k \in 0..MaxTurns : SamePoint(ShiftedPoint(k), point.res)

\* The cross product of facet f is the zero vector: a degenerate triangle.
Degenerate(f) ==
    FacetCross(f.v1, f.v2, f.v3) = [x |-> 0, y |-> 0, z |-> 0]

\* The squared length of a written normal, in NormalUnit^2.
NormalSquare(n) == n.x * n.x + n.y * n.y + n.z * n.z

\* C12 (as claimed): no facet normal of exportSTL is NaN, and a degenerate
\* triangle is written with a normal of length 1, not of length 0.
C12_StlNormals ==
    stlFile.written =>
        \A t \in 1..Len(stlFile.facets) :
            /\ stlFile.facets[t].nan = {}
            /\ Degenerate(stlFile.facets[t]) =>
                  /\ NormalSquare(stlFile.facets[t].normal) >= (NormalUnit - 100) * (NormalUnit - 100)
                  /\ NormalSquare(stlFile.facets[t].normal) <= (NormalUnit + 100) * (NormalUnit + 100)

\* The commands of a preamble, as a set.
HeaderCommands == {gcode.header[i] : i \in 1..Len(gcode.header)}

\* C13: every preamble starts with G21, G90, M82; the wasp preamble has a G28
\* and M204 S500, which no other preamble has; the preambles of the three
\* profiles are pairwise distinct; an unrecognised printerType gets the marlin
\* preamble.
C13_Preamble ==
    gcode.written =>
        /\ SubSeq(gcode.header, 1, 3) = <<"G21", "G90", "M82">>
        /\ params.printerType = "wasp" => {"G28", "M204 S500"} \subseteq HeaderCommands
        /\ params.printerType # "wasp" => "M204 S500" \notin HeaderCommands
        /\ params.printerType \in PrinterTypes =>
              \A t \in PrinterTypes \ {params.printerType} :
                  GetHeader([params EXCEPT !.printerType = t]) # gcode.header
        /\ params.printerType \notin PrinterTypes =>
              gcode.header = GetHeader([params EXCEPT !.printerType = "marlin"])

\* C13 witness: a written wasp program with its acceleration command, after
\* the three common commands and the homing.
C13_Witness ==
    /\ gcode.written
    /\ params.printerType = "wasp"
    /\ Len(gcode.header) = 6
    /\ gcode.header[4] = "G28"
    /\ gcode.header[6] = "M204 S500"

\* The commands of the written program, in text order.
WrittenCommands == GcodeCommands(gcode)

\* C14: the program ends, right after the last G1 step move, with retract,
\* lift to Z = height + 20, home X/Y, M30, in this order; no step move follows
\* the retract and nothing follows M30.
C14_Postamble ==
    gcode.written =>
        /\ Len(WrittenCommands) = Len(gcode.header) + 1 + Len(gcode.moves) + 4
        /\ SubSeq(WrittenCommands, Len(WrittenCommands) - 3, Len(WrittenCommands))
              = <<"G1 E-2 F2400", "G1 Z", "G28 X0 Y0", "M30">>
        /\ gcode.footer[2].z = params.height + 20 * UNIT
        /\ gcode.footer[2].z > gcode.moves[Len(gcode.moves)].z
        /\ WrittenCommands[Len(WrittenCommands) - 4] = "G1 X Y Z E"
        /\ \A i \in 1..Len(WrittenCommands) :
              /\ WrittenCommands[i] = "G1 X Y Z E" => i < Len(WrittenCommands) - 3
              /\ WrittenCommands[i] = "M30" => i = Len(WrittenCommands)
              /\ WrittenCommands[i] = "G1 E-2 F2400" => i = Len(WrittenCommands) - 3

\* C14 witness: a potterbot program of at least six step moves followed by the
\* four footer commands, the lift 20 mm above the last move.
C14_Witness ==
    /\ gcode.written
    /\ params.printerType = "potterbot"
    /\ Len(gcode.moves) >= 6
    /\ WrittenCommands[Len(WrittenCommands)] = "M30"
    /\ gcode.footer[2].z = gcode.moves[Len(gcode.moves)].z + 20 * UNIT

\* The next direct call has the arguments of the last one.
SameCall ==
    /\ point.called
    /\ point'.uN = point.uN /\ point'.uD = point.uD
    /\ point'.vN = point.vN /\ point'.vD = point.vD
    /\ point'.radiusOffset = point.radiusOffset /\ point'.inner = point.inner

SeamVertex(i) ==
    IF i < 2 * (params.layers + 1) * (params.segments + 1)
         /\ i % (params.segments + 1) = params.segments
    THEN i - params.segments
    ELSE i

\* The undirected edges of the t-th triangle after the identification.
TriangleEdges(t) ==
    {{SeamVertex(Triangle(t)[1]), SeamVertex(Triangle(t)[2])},
     {SeamVertex(Triangle(t)[2]), SeamVertex(Triangle(t)[3])},
     {SeamVertex(Triangle(t)[3]), SeamVertex(Triangle(t)[1])}}

\* C16: in solid mode, for layers >= 1 and segments >= 3, every undirected
\* edge of the mesh belongs to exactly two triangles once the seam vertices
\* are identified: the surface is closed.
C16_ClosedSolid ==
    (mesh.built /\ params.wallThickness > 0) =>
        LET edges == [t \in 1..(Len(mesh.indices) \div 3) |-> TriangleEdges(t)]
        IN  \A t \in DOMAIN edges : \A e \in edges[t] :
                /\ Cardinality(e) = 2
                /\ Cardinality({s \in DOMAIN edges : e \in edges[s]}) = 2

\* C16 witness: a solid mesh of two layers whose last outer cell reaches the
\* seam column, and whose rim and floor fans are present.
C16_Witness ==
    /\ mesh.built
    /\ params.wallThickness > 0
    /\ params.layers = 2
    /\ Len(mesh.indices) = 3 * (4 * params.layers * params.segments + 4 * params.segments)
    /\ \E t \in 1..(Len(mesh.indices) \div 3) :
          /\ Triangle(t)[3] = params.segments
          /\ SeamVertex(Triangle(t)[3]) = 0

\* The radius of the outer and of the inner shell at grid point (x, y), as
\* generateVesselMesh evaluates them.
OuterRadiusAt(x, y) ==
    CalculateVesselPoint(params, x, params.segments, y, params.layers, 0, 0, 1, 1,
                         textureData).r

InnerRadiusAt(x, y) ==
    CalculateVesselPoint(params, x, params.segments, y, params.layers,
                         -params.wallThickness, params.wallThickness,
                         InnerHeightScaleNum(params), params.height, textureData).r

\* C17 (as claimed): in solid mode the inner radius is the outer radius minus
\* wallThickness at every grid point.
C17_UniformWall ==
    (mesh.built /\ params.wallThickness > 0) =>
        \A y \in 0..params.layers : \A x \in 0..params.segments :
            InnerRadiusAt(x, y) = OuterRadiusAt(x, y) - params.wallThickness

\* What the texture added to the radius of the last direct call, before
\* radiusOffset and the clamp.
PointTextureTerm ==
    PointRawRadius - params.baseRadius - point.radiusOffset
      - NoiseTerm(params, point.uN, point.uD, point.vN, point.vD)

\* The four texels read by the last direct call.
PointTexels ==
    LET k == TexLookup(textureData, point.uN, point.uD, point.vN, point.vD)
    IN  {Texel(textureData, i) : i \in {k.i11, k.i21, k.i12, k.i22}}

\* C18: without a texture or with textureInfluence <= 0 nothing is added to
\* the radius, whatever the texture holds; otherwise the amount added lies in
\* 0..textureInfluence, 0 for luminance 0 and textureInfluence for 255.
C18_TextureRange ==
    point.called =>
        /\ ~TextureApplies(params, textureData) =>
              /\ PointTextureTerm = 0
              /\ params.textureInfluence <= 0 =>
                    \A t \in Textures :
                        RawRadius(params, point.uN, point.uD, point.vN, point.vD,
                                  point.radiusOffset, t) = PointRawRadius
        /\ TextureApplies(params, textureData) =>
              /\ PointTextureTerm >= 0
              /\ PointTextureTerm <= params.textureInfluence
              /\ PointTexels = {0} => PointTextureTerm = 0
              /\ PointTexels = {255} => PointTextureTerm = params.textureInfluence

\* C18 witness: a call between a black and a white texel, displaced by part
\* of textureInfluence.
C18_Witness ==
    /\ point.called
    /\ TextureApplies(params, textureData)
    /\ PointTexels = {0, 255}
    /\ PointTextureTerm > 0
    /\ PointTextureTerm < params.textureInfluence

\* The program exportGCODE writes for the current parameters with the wall
\* thickness replaced by wt.
GcodeWithWall(wt) ==
    [written |-> TRUE] @@ GcodeFile([params EXCEPT !.wallThickness = wt], textureData)

\* C19: the G-code does not depend on wallThickness: the written program is
\* the program of every parameter set that differs in wallThickness only.
C19_WallIgnored ==
    gcode.written =>
        \A wt \in {0, UNIT \div 2, 2 * UNIT, 10 * UNIT} : GcodeWithWall(wt) = gcode

\* C19 witness: a program written for a solid vessel, whose mesh has the two
\* shells, equal to the program of the vase of the same shape.
C19_Witness ==
    /\ gcode.written /\ mesh.built
    /\ params.wallThickness > 0
    /\ Len(mesh.vertices) = 2 * (params.layers + 1) * (params.segments + 1) + 2
    /\ Len(gcode.moves) >= 6
    /\ GcodeWithWall(0) = gcode

\* The texel lookup of the last direct call.
PointLookup == TexLookup(textureData, point.uN, point.uD, point.vN, point.vD)

\* C20 (as claimed): the texel column wraps modulo width and the texel row
\* never wraps: at v = 0 the lookup reads the last row, at v = 1 row 0, and
\* the four indices lie in the grid.
C20_RowNeverWraps ==
    (point.called /\ TextureApplies(params, textureData)) =>
        /\ PointLookup.x1 \in 0..(textureData.width - 1)
        /\ PointLookup.x2 = (PointLookup.x1 + 1) % textureData.width
        /\ point.vN = 0 => PointLookup.y1 = textureData.height - 1
        /\ point.vN = point.vD => PointLookup.y1 = 0
        /\ \A i \in {PointLookup.i11, PointLookup.i21, PointLookup.i12, PointLookup.i22} :
              TexelDefined(textureData, i)

-----------------------------------------------------------------------------
(* C21 *)

\* The two triangles of the k-th cell (1-based, in stitching order) of the
\* outer shell, and of the inner shell with its index offset taken away.
OuterCellTriangles(k) == <<Triangle(2 * k - 1), Triangle(2 * k)>>

InnerCellTriangles(k) ==
    LET cells == params.layers * params.segments
        off   == (params.layers + 1) * (params.segments + 1)
        t1    == Triangle(2 * cells + 2 * k - 1)
        t2    == Triangle(2 * cells + 2 * k)
    IN  <<<<t1[1] - off, t1[2] - off, t1[3] - off>>,
          <<t2[1] - off, t2[2] - off, t2[3] - off>>>>

\* The index of a cell with its left and right columns exchanged: column x of
\* the cell becomes column x + 1 and back, the row is kept.
SwapColumns(i, x) ==
    IF i % (params.segments + 1) = x THEN i + 1 ELSE i - 1

\* C21: in solid mode the outer-shell triangles of every cell (y, x) are the
\* vase-mode triples (BL, TL, BR) and (BR, TL, TR) of that cell, and the
\* inner-shell triangles of the cell are those triples with the left and right
\* columns exchanged, so the two shells have opposite winding.
C21_ShellWinding ==
    (mesh.built /\ params.wallThickness > 0) =>
        \A k \in 1..(params.layers * params.segments) :
            LET y    == (k - 1) \div params.segments
                x    == (k - 1) % params.segments
                bl   == y * (params.segments + 1) + x
                tl   == (y + 1) * (params.segments + 1) + x
                vase == VaseCell(params.segments, y, x)
                out  == OuterCellTriangles(k)
                inn  == InnerCellTriangles(k)
            IN  /\ out = <<<<bl, tl, bl + 1>>, <<bl + 1, tl, tl + 1>>>>
                /\ out = <<<<vase[1], vase[2], vase[3]>>, <<vase[4], vase[5], vase[6]>>>>
                /\ \A t \in 1..2 : \A j \in 1..3 :
                      inn[t][j] = SwapColumns(out[t][j], x)

\* C21 witness: a solid mesh of two layers whose last inner cell starts at the
\* bottom-right vertex of the seam column.
C21_Witness ==
    /\ mesh.built
    /\ params.wallThickness > 0
    /\ params.layers = 2
    /\ InnerCellTriangles(params.layers * params.segments)[1][1]
          = (params.layers - 1) * (params.segments + 1) + params.segments
    /\ OuterCellTriangles(params.layers * params.segments)[1][1]
          = (params.layers - 1) * (params.segments + 1) + params.segments - 1

-----------------------------------------------------------------------------
(* C22 *)

\* The directed edges of the t-th triangle, in its winding order, after the
\* seam identification.
DirectedEdges(t) ==
    {<<SeamVertex(Triangle(t)[1]), SeamVertex(Triangle(t)[2])>>,
     <<SeamVertex(Triangle(t)[2]), SeamVertex(Triangle(t)[3])>>,
     <<SeamVertex(Triangle(t)[3]), SeamVertex(Triangle(t)[1])>>}

\* C22: the solid mesh is consistently oriented: once the seam vertices are
\* identified, every directed edge a -> b is traversed by at most one
\* triangle, so the rim and the two floor fans run along the edges they share
\* with a shell in the direction opposite to the shell's triangle.
C22_ConsistentlyOriented ==
    (mesh.built /\ params.wallThickness > 0) =>
        LET edges == [t \in 1..(Len(mesh.indices) \div 3) |-> DirectedEdges(t)]
        IN  \A t \in DOMAIN edges : \A e \in edges[t] :
                Cardinality({s \in DOMAIN edges : e \in edges[s]}) = 1

-----------------------------------------------------------------------------
(* C23 *)

\* Every processImageForGeometry request started so far has settled.
AllRequestsSettled ==
    \A k \in 1..Len(requests) : requests[k].status \in {"resolved", "rejected"}

\* C23: under any interleaving of image changes and request completions, once
\* every started request has settled, textureData is null when
\* params.textureImage is null, and otherwise, the request of the current
\* image having resolved, it is the grid decoded from the current image and
\* never the grid of an earlier image.
C23_TextureFollowsImage ==
    AllRequestsSettled =>
        /\ (params.textureImage = NoImage) => (textureData = NoTexture)
        /\ (/\ params.textureImage # NoImage
            /\ Len(requests) > 0
            /\ requests[Len(requests)].status = "resolved")
              => (textureData = ProcessedTexture(params.textureImage))

-----------------------------------------------------------------------------
(* C24 *)

\* C24: while isSimulating is true and the user does nothing, every tick
\* raises simProgress by one step of 0.01 as long as it is below 1;
\* simProgress stays within [0, 1]; once the user makes no more input, playback
\* leads to a tick that sets simProgress to 1 and isSimulating to false, and
\* from then on no tick changes the progress.
C24_Playback ==
    /\ [](simProgress \in 0..SimFull)
    /\ [][(isSimulating /\ userInputs' = userInputs) =>
             IF simProgress < SimFull
             THEN simProgress' = simProgress + SimStep /\ isSimulating'
             ELSE simProgress' = SimFull /\ ~isSimulating']_vars
    /\ [][(~isSimulating /\ userInputs' = userInputs) => simProgress' = simProgress]_vars
    /\ (isSimulating /\ userInputs = MaxUserInputs) ~> (simProgress = SimFull /\ ~isSimulating)

\* C24 witness: playback has advanced by ticks to one step before the end
\* (the slider's stops are 0, 0.5 and 1).
C24_Witness ==
    /\ isSimulating
    /\ simProgress = SimFull - SimStep
    /\ liveTimers = 1

-----------------------------------------------------------------------------
(* C25 *)

\* C25: in every state isSimulating implies that the simulation window is
\* open; no step starts playback without the window open afterwards, no step
\* closes the window without stopping playback, and a step that closes the
\* window leaves simProgress unchanged.
C25_PlayingImpliesWindow ==
    /\ [](isSimulating => isSimWindowOpen)
    /\ [][(~isSimulating /\ isSimulating') => isSimWindowOpen']_vars
    /\ [][(isSimWindowOpen /\ ~isSimWindowOpen') =>
             (~isSimulating' /\ simProgress' = simProgress)]_vars

\* C25 witness: the window was closed during playback, which stopped it
\* between two slider stops.
C25_Witness ==
    /\ ~isSimWindowOpen
    /\ ~isSimulating
    /\ simProgress \notin SliderStops
    /\ liveTimers = 0

-----------------------------------------------------------------------------
(* C26 *)

\* The step is a move of the progress slider: the progress becomes one of the
\* slider's positions, playback is off afterwards and the user made one input.
SliderStep ==
    /\ simProgress' \in SliderStops
    /\ ~isSimulating'
    /\ userInputs' = userInputs + 1

\* C26: pressing play at simProgress = 1, as in the initial state, never
\* restarts the simulation: a tick at progress 1 sets isSimulating to false
\* and leaves the progress at 1, and the progress gets below 1 only by a move
\* of the progress slider.
C26_NoRestartAtEnd ==
    /\ [][(simProgress = SimFull /\ isSimulating /\ userInputs' = userInputs) =>
             (simProgress' = SimFull /\ ~isSimulating')]_vars
    /\ [][(simProgress = SimFull /\ simProgress' < SimFull) => SliderStep]_vars
    /\ []((userInputs = 1 /\ isSimulating) => simProgress = SimFull)

\* C26 witness: play was pressed in the initial state and the first tick has
\* stopped playback again, with the window left open.
C26_Witness ==
    /\ userInputs = 1
    /\ ~isSimulating
    /\ isSimWindowOpen
    /\ simProgress = SimFull
    /\ ~interval

-----------------------------------------------------------------------------
(* C27 *)

\* C27: at most one playback interval is live at any time and none is live
\* while isSimulating is false, every re-run of the auto-play effect clearing
\* the previous interval before it sets a new one; so with playback off only a
\* move of the slider changes simProgress, and a step without user input
\* never advances the progress by more than one step of 0.01.
C27_OneTimer ==
    /\ [](liveTimers <= 1 /\ (~isSimulating => liveTimers = 0))
    /\ [][(~isSimulating /\ simProgress' # simProgress) => SliderStep]_vars
    /\ [][(userInputs' = userInputs) => simProgress' <= simProgress + SimStep]_vars

\* C27 witness: playback was paused between two slider stops with the window
\* open, after the effect had re-run at every tick, and no interval is left.
C27_Witness ==
    /\ ~isSimulating
    /\ isSimWindowOpen
    /\ simProgress \notin SliderStops
    /\ simProgress > SimStep
    /\ liveTimers = 0
    /\ ~interval

-----------------------------------------------------------------------------
(* C28 *)

\* A generateProcessingCode call is awaited.
GenerationPending == \E k \in 1..Len(generations) : generations[k] = "pending"

\* C28: isGenerating is true exactly from the start of a request until it
\* settles, whether it succeeds or fails; the step that settles a request
\* either sets successMessage and replaces generatedScript by the new script,
\* leaving error as it is, or sets error, leaving successMessage and the
\* previously generated script as they are.
C28_GenerateSettles ==
    /\ [](isGenerating <=> GenerationPending)
    /\ [][(isGenerating /\ ~isGenerating') =>
             \/ /\ successMessage' = GenerateSuccessMessage
                /\ generatedScript' = Len(generations)
                /\ generatedScript' # generatedScript
                /\ error' = error
             \/ /\ error' = GenerateErrorMessage
                /\ successMessage' = successMessage
                /\ successMessage' = ""
                /\ generatedScript' = generatedScript]_vars

\* C28 witness: a first request succeeded and a second one failed, leaving the
\* first script in place with the error shown.
C28_Witness ==
    /\ generations = <<"resolved", "rejected">>
    /\ ~isGenerating
    /\ generatedScript = 1
    /\ error = GenerateErrorMessage
    /\ successMessage = ""

-----------------------------------------------------------------------------
(* C29 *)

\* The segment counts compared: the explored ones and the slider's two ends.
SegmentChoices == (3..MaxSegments) \cup {SegmentsMin, SegmentsMax}

\* The statistics of the state's parameters with `segments` replaced by s.
StatsWithSegments(s) == CalculatePrintStats([params EXCEPT !.segments = s], textureData)

\* C29: the PrintStats do not depend on segments: for parameter sets that
\* differ only in segments, with the same texture, estimatedTime,
\* filamentLength, filamentWeight, layerHeight and totalLayers are equal.
C29_StatsIgnoreSegments ==
    stats.computed =>
        \A s \in SegmentChoices :
            /\ StatsWithSegments(s).estimatedTime = stats.estimatedTime
            /\ StatsWithSegments(s).filamentLength = stats.filamentLength
            /\ StatsWithSegments(s).filamentWeight = stats.filamentWeight
            /\ StatsWithSegments(s).layerHeight = stats.layerHeight
            /\ StatsWithSegments(s).totalLayers = stats.totalLayers

\* C29 witness: statistics of two textured rings were computed, with a
\* positive filament length, for the smallest explored segment count.
C29_Witness ==
    /\ stats.computed
    /\ params.segments = 3
    /\ params.layers = 2
    /\ textureData.present
    /\ stats.filamentLength > 0
    /\ stats.estimatedTime > 0

-----------------------------------------------------------------------------
(* C30 *)

\* C30: over the whole motion sequence of the G-code body the Z coordinate
\* never decreases: the Z of the first G1 step is at least the Z of the G0
\* start move, and the Z of every later step is at least the Z of the step
\* before it, for layers >= 1 and segments >= 3.
C30_ZNeverDecreases ==
    (gcode.written /\ params.layers >= 1 /\ params.segments >= 3) =>
        /\ Len(gcode.moves) = params.layers * params.segments
        /\ gcode.moves[1].z >= gcode.start.z
        /\ \A i \in 1..(Len(gcode.moves) - 1) : gcode.moves[i + 1].z >= gcode.moves[i].z

=============================================================================
